---- MODULE Spec2Model ----
(***************************************************************************)
(* A model of the WebScraper of src/scraper.py: URL normalisation, the     *)
(* bounded breadth-first crawl (crawl_site), the extraction loop           *)
(* (scrape_site / extract_content) and the two callers (main and the       *)
(* coverage test, which reuses one instance for several sites).            *)
(* normalize_url, is_valid_url, detect_content_type and the title chain of *)
(* extract_content are also run on their own, over sets of arguments,      *)
(* under SpecNormalize, SpecValid, SpecClassify and SpecTitle.             *)
(*                                                                         *)
(* Strings are sequences of one-character strings, so that startswith,     *)
(* rstrip, split, lower and title are computed as Python computes them.    *)
(* urlparse / urlunparse follow CPython 3.11's urllib.parse, restricted to *)
(* the characters the model's strings are made of (no control character   *)
(* to strip, no ']' and no non-ASCII host).                                *)
(***************************************************************************)
EXTENDS Integers, Sequences, FiniteSets, TLC

(***************************************************************************)
(* Characters and elementary string functions                              *)
(***************************************************************************)
LowerLetters == {"h", "t", "p", "s", "q", "c", "o", "a", "b", "e", "x"}
UpperLetters == {"Q", "A", "X"}
Letters == LowerLetters \cup UpperLetters

\* str.lower() on one character
LowerChar(c) ==
  CASE c = "Q" -> "q"
    [] c = "A" -> "a"
    [] c = "X" -> "x"
    [] OTHER -> c

\* str.upper() on one character
UpperChar(c) ==
  CASE c = "q" -> "Q"
    [] c = "a" -> "A"
    [] c = "x" -> "X"
    [] c = "h" -> "H"
    [] c = "t" -> "T"
    [] c = "p" -> "P"
    [] c = "s" -> "S"
    [] c = "c" -> "C"
    [] c = "o" -> "O"
    [] c = "b" -> "B"
    [] c = "e" -> "E"
    [] OTHER -> c

\* str.lower()
Lower(s) == [i \in 1..Len(s) |-> LowerChar(s[i])]

\* s[i:] with a 0-based Python index i
From(s, i) == SubSeq(s, i + 1, Len(s))

\* s[:i] with a 0-based Python index i
Upto(s, i) == SubSeq(s, 1, i)

\* str.startswith(p)
StartsWith(s, p) == Len(s) >= Len(p) /\ SubSeq(s, 1, Len(p)) = p

\* str.endswith(p)
EndsWith(s, p) == Len(s) >= Len(p) /\ SubSeq(s, Len(s) - Len(p) + 1, Len(s)) = p

\* The least and the greatest member of a non-empty set of integers
Least(S) == CHOOSE i \in S : \A j \in S : i <= j
Greatest(S) == CHOOSE i \in S : \A j \in S : i >= j

\* The 0-based indices at or after `start` of the characters of s in chars
Hits(s, chars, start) == {i \in start..(Len(s) - 1) : s[i + 1] \in chars}

\* The 0-based index of the first character of s at or after `start` that is
\* in chars, or -1 (str.find for one-character needles)
FindIn(s, chars, start) ==
  IF Hits(s, chars, start) = {} THEN -1 ELSE Least(Hits(s, chars, start))

\* str.rfind(c): 0-based index of the last occurrence, or -1
RFind(s, c) ==
  IF Hits(s, {c}, 0) = {} THEN -1 ELSE Greatest(Hits(s, {c}, 0))

\* str.rstrip('/')
RECURSIVE RStripSlash(_)
RStripSlash(s) ==
  IF s # <<>> /\ s[Len(s)] = "/" THEN RStripSlash(SubSeq(s, 1, Len(s) - 1)) ELSE s

\* str.strip() for the one whitespace character of the model, " "
RECURSIVE Strip(_)
Strip(s) ==
  IF s # <<>> /\ s[1] = " " THEN Strip(Tail(s))
  ELSE IF s # <<>> /\ s[Len(s)] = " " THEN Strip(SubSeq(s, 1, Len(s) - 1))
  ELSE s

\* c in s, for a character c
Contains(s, c) == \E i \in 1..Len(s) : s[i] = c

\* needle in s, for a string needle
HasSubstring(s, needle) ==
  \E i \in 0..(Len(s) - Len(needle)) : SubSeq(s, i + 1, i + Len(needle)) = needle

(***************************************************************************)
(* urllib.parse, as normalize_url, is_valid_url and extract_content use it *)
(***************************************************************************)
HTTP  == <<"h", "t", "t", "p", ":", "/", "/">>
HTTPS == <<"h", "t", "t", "p", "s", ":", "/", "/">>

\* scheme_chars of urllib.parse, cut to the model's characters
SchemeChars == Letters \cup {".", "-"}

\* uses_netloc and uses_params both hold http and https (and '')
UsesNetloc(scheme) == scheme \in {<<>>, <<"h", "t", "t", "p">>, <<"h", "t", "t", "p", "s">>}
UsesParams(scheme) == scheme \in {<<>>, <<"h", "t", "t", "p">>, <<"h", "t", "t", "p", "s">>}

\* s cut at the 0-based index i, the character at i dropped; all of s is the
\* head when i is -1 (s.split(c, 1) with i = s.find(c))
CutAt(s, i) ==
  IF i >= 0 THEN [head |-> Upto(s, i), tail |-> From(s, i + 1)]
  ELSE [head |-> s, tail |-> <<>>]

\* s.split(c, 1) when c is in s, else (s, '')
SplitOnce(s, c) == CutAt(s, FindIn(s, {c}, 0))

\* urlsplit, the scheme: the text before the first ':' (at index i) is the
\* scheme when it starts with a letter and is made of scheme characters
HasScheme(url, i) ==
  i > 0 /\ url[1] \in Letters /\ \A k \in 1..i : url[k] \in SchemeChars
CutScheme(url, i) ==
  IF HasScheme(url, i) THEN [scheme |-> Lower(Upto(url, i)), rest |-> From(url, i + 1)]
  ELSE [scheme |-> <<>>, rest |-> url]
SplitScheme(url) == CutScheme(url, FindIn(url, {":"}, 0))

\* _splitnetloc(url, 2): the netloc ends at the first of '/?#' or at the end
NetlocEnd(url) ==
  IF FindIn(url, {"/", "?", "#"}, 2) < 0 THEN Len(url) ELSE FindIn(url, {"/", "?", "#"}, 2)
SplitNetloc(url) ==
  IF StartsWith(url, <<"/", "/">>)
  THEN [netloc |-> SubSeq(url, 3, NetlocEnd(url)), rest |-> From(url, NetlocEnd(url))]
  ELSE [netloc |-> <<>>, rest |-> url]

\* urlsplit(url): the scheme, the netloc after a leading '//', then the
\* fragment and the query are cut off; what is left is the path.
\* err is ValueError("Invalid IPv6 URL"): a '[' without ']' in the netloc.
SplitResult(scheme, netloc, pq, fragment) ==
  [err |-> Contains(netloc, "["), scheme |-> scheme, netloc |-> netloc,
   path |-> pq.head, query |-> pq.tail, fragment |-> fragment]
SplitFragment(scheme, netloc, uf) ==
  SplitResult(scheme, netloc, SplitOnce(uf.head, "?"), uf.tail)
SplitAfterScheme(scheme, n) == SplitFragment(scheme, n.netloc, SplitOnce(n.rest, "#"))
SplitAfter(s) == SplitAfterScheme(s.scheme, SplitNetloc(s.rest))
UrlSplit(url) == SplitAfter(SplitScheme(url))

\* _splitparams(url): the params follow the first ';' of the last path segment
ParamsAt(url, slash) ==
  IF slash >= 0 THEN FindIn(url, {";"}, slash) ELSE FindIn(url, {";"}, 0)
CutParams(url, slash, i) ==
  IF slash >= 0 /\ i < 0 THEN [path |-> url, params |-> <<>>]
  ELSE [path |-> Upto(url, i), params |-> From(url, i + 1)]
SplitParams(url) == CutParams(url, RFind(url, "/"), ParamsAt(url, RFind(url, "/")))

\* urlparse(url): urlsplit, then the params are cut off the path
ParseResult(s, sp) ==
  [err |-> s.err, scheme |-> s.scheme, netloc |-> s.netloc, path |-> sp.path,
   params |-> sp.params, query |-> s.query, fragment |-> s.fragment]
ParseSplit(s) ==
  ParseResult(s, IF UsesParams(s.scheme) /\ Contains(s.path, ";")
                 THEN SplitParams(s.path)
                 ELSE [path |-> s.path, params |-> <<>>])
UrlParse(url) == ParseSplit(UrlSplit(url))

\* urlunsplit((scheme, netloc, url, query, fragment))
UnsplitNetloc(scheme, netloc, path) ==
  IF netloc # <<>> \/ (scheme # <<>> /\ UsesNetloc(scheme) /\ ~StartsWith(path, <<"/", "/">>))
  THEN <<"/", "/">> \o netloc
       \o (IF path # <<>> /\ path[1] # "/" THEN <<"/">> ELSE <<>>) \o path
  ELSE path
UnsplitScheme(scheme, url) == IF scheme # <<>> THEN scheme \o <<":">> \o url ELSE url
UnsplitQuery(url, query) == IF query # <<>> THEN url \o <<"?">> \o query ELSE url
UnsplitFragment(url, fragment) == IF fragment # <<>> THEN url \o <<"#">> \o fragment ELSE url
UrlUnsplit(scheme, netloc, path, query, fragment) ==
  UnsplitFragment(
    UnsplitQuery(UnsplitScheme(scheme, UnsplitNetloc(scheme, netloc, path)), query),
    fragment)

\* urlunparse((scheme, netloc, url, params, query, fragment))
UrlUnparse(scheme, netloc, path, params, query, fragment) ==
  UrlUnsplit(scheme, netloc,
             IF params # <<>> THEN path \o <<";">> \o params ELSE path,
             query, fragment)

(***************************************************************************)
(* WebScraper.normalize_url                                                *)
(***************************************************************************)
\* The scheme inference of normalize_url
WithScheme(url) ==
  IF StartsWith(url, HTTP) \/ StartsWith(url, HTTPS) THEN url ELSE HTTPS \o url

\* normalize_url raises (urlparse raises ValueError)
NormalizeRaises(url) == UrlParse(WithScheme(url)).err

\* The path component normalize_url hands to urlunparse:
\* parsed.path.rstrip('/') or '/'
NormalPath(path) == IF RStripSlash(path) = <<>> THEN <<"/">> ELSE RStripSlash(path)

\* The urlunparse of normalize_url: the host lower-cased, the path stripped
Reconstruct(parsed) ==
  UrlUnparse(parsed.scheme, Lower(parsed.netloc), NormalPath(parsed.path),
             parsed.params, parsed.query, parsed.fragment)

\* normalize_url(url), when it does not raise
normalize_url(url) == Reconstruct(UrlParse(WithScheme(url)))

(***************************************************************************)
(* WebScraper.is_valid_url and WebScraper.extract_links                    *)
(***************************************************************************)
\* The test is_valid_url makes on the parsed URL
SameDomain(parsed, base_domain) ==
  IF parsed.err THEN FALSE
  ELSE IF parsed.netloc = <<>> THEN FALSE
  ELSE parsed.netloc = base_domain \/ EndsWith(parsed.netloc, <<".">> \o base_domain)

\* is_valid_url(url, base_domain): a ValueError of urlparse is swallowed
is_valid_url(url, base_domain) == SameDomain(UrlParse(url), base_domain)

\* urljoin(base_url, href) for an href that carries its own scheme and host
\* (the only hrefs of the model's pages): the href itself under another
\* scheme than the base's, else the href parsed and put together again
JoinParsed(b, h, href) ==
  IF h.scheme # b.scheme THEN href
  ELSE UrlUnparse(h.scheme, h.netloc, h.path, h.params, h.query, h.fragment)
UrlJoin(base_url, href) == JoinParsed(UrlParse(base_url), UrlParse(href), href)

\* An href of the page makes urljoin or normalize_url raise ValueError
ExtractLinksRaises(hrefs, base_url) ==
  \E href \in hrefs :
    UrlParse(href).err \/ NormalizeRaises(UrlJoin(base_url, href))

\* extract_links(html, base_url, base_domain), as the set its list is made of
extract_links(hrefs, base_url, base_domain) ==
  {full_url \in {normalize_url(UrlJoin(base_url, href)) : href \in hrefs} :
     is_valid_url(full_url, base_domain)}

(***************************************************************************)
(* WebScraper.detect_content_type                                          *)
(***************************************************************************)
\* The URL patterns of detect_content_type
P_BLOG == <<"/", "b", "l", "o", "g", "/">>
P_POST == <<"/", "p", "o", "s", "t", "/">>
P_ARTICLE == <<"/", "a", "r", "t", "i", "c", "l", "e", "/">>
P_PODCAST == <<"/", "p", "o", "d", "c", "a", "s", "t", "/">>
P_EPISODE == <<"/", "e", "p", "i", "s", "o", "d", "e", "/">>
P_CALL == <<"/", "c", "a", "l", "l", "/">>
P_MEETING == <<"/", "m", "e", "e", "t", "i", "n", "g", "/">>
P_LINKEDIN == <<"l", "i", "n", "k", "e", "d", "i", "n", ".", "c", "o", "m">>
P_POSTS == <<"/", "p", "o", "s", "t", "s", "/">>
P_REDDIT == <<"r", "e", "d", "d", "i", "t", ".", "c", "o", "m">>
P_COMMENTS == <<"/", "c", "o", "m", "m", "e", "n", "t", "s", "/">>
P_BOOK == <<"/", "b", "o", "o", "k", "/">>
P_BOOKS == <<"/", "b", "o", "o", "k", "s", "/">>
P_GUIDE == <<"/", "g", "u", "i", "d", "e", "/">>
P_GUIDES == <<"/", "g", "u", "i", "d", "e", "s", "/">>
P_TUTORIAL == <<"/", "t", "u", "t", "o", "r", "i", "a", "l", "/">>

PatBlog    == {P_BLOG, P_POST, P_ARTICLE}
PatPodcast == {P_PODCAST, P_EPISODE}
PatCall    == {P_CALL, P_MEETING}
PatLinked  == {P_LINKEDIN, P_POSTS}
PatReddit  == {P_REDDIT, P_COMMENTS}
PatBook    == {P_BOOK, P_BOOKS}
PatGuide   == {P_GUIDE, P_GUIDES, P_TUTORIAL}

\* any(pattern in url_lower for pattern in patterns)
AnyIn(patterns, url_lower) == \E pattern \in patterns : HasSubstring(url_lower, pattern)

\* ClassifyLower with the linkedin/posts test made before the call/meeting test
ClassifyLower_PostsBeforeCall(url_lower) ==
  IF AnyIn(PatBlog, url_lower) THEN "blog"
  ELSE IF AnyIn(PatPodcast, url_lower) THEN "podcast_transcript"
  ELSE IF AnyIn(PatLinked, url_lower) THEN "linkedin_post"
  ELSE IF AnyIn(PatCall, url_lower) THEN "call_transcript"
  ELSE IF AnyIn(PatReddit, url_lower) THEN "reddit_comment"
  ELSE IF AnyIn(PatBook, url_lower) THEN "book"
  ELSE IF AnyIn(PatGuide, url_lower) THEN "blog"
  ELSE "blog"

\* detect_content_type(url, title, content); title and content are not read
ClassifyLower(url_lower) ==
  IF AnyIn(PatBlog, url_lower) THEN "blog"
  ELSE IF AnyIn(PatPodcast, url_lower) THEN "podcast_transcript"
  ELSE IF AnyIn(PatCall, url_lower) THEN "call_transcript"
  ELSE IF AnyIn(PatLinked, url_lower) THEN "linkedin_post"
  ELSE IF AnyIn(PatReddit, url_lower) THEN "reddit_comment"
  ELSE IF AnyIn(PatBook, url_lower) THEN "book"
  ELSE IF AnyIn(PatGuide, url_lower) THEN "blog"
  ELSE "blog"
detect_content_type(url, title, content) == ClassifyLower(Lower(url))

(***************************************************************************)
(* WebScraper.extract_content: the title chain and the record              *)
(***************************************************************************)
\* The selectors of the title loop, in the order they are tried
Selectors == <<"h1", "title", ".post-title", ".entry-title", ".article-title">>

SelectorSet == {Selectors[i] : i \in 1..Len(Selectors)}

\* A fetched document: elems tells of each selector whether an element
\* matches it and the text of the first one (soup.select_one(...).get_text());
\* has_content and extracted are trafilatura's result (None, or the Markdown)
Document(elems, has_content, extracted) ==
  [elems |-> elems, has_content |-> has_content, extracted |-> extracted]

\* The for-loop over the selectors: the stripped text of the first selector
\* that matches; <<>> stands for both None and the empty string
PresentSelectors(doc) == {i \in 1..Len(Selectors) : doc.elems[Selectors[i]].present}
\* SelectorTitle without the break: the last selector that matches wins
SelectorTitle_NoBreak(doc) ==
  IF PresentSelectors(doc) = {} THEN <<>>
  ELSE Strip(doc.elems[Selectors[Greatest(PresentSelectors(doc))]].text)
SelectorTitle(doc) ==
  IF PresentSelectors(doc) = {} THEN <<>>
  ELSE Strip(doc.elems[Selectors[Least(PresentSelectors(doc))]].text)

\* extracted.split('\n')
RECURSIVE SplitLines(_)
SplitLines(s) ==
  IF FindIn(s, {"\n"}, 0) < 0 THEN <<s>>
  ELSE <<Upto(s, FindIn(s, {"\n"}, 0))>> \o SplitLines(From(s, FindIn(s, {"\n"}, 0) + 1))

\* The Markdown fallback: the first line that starts with '# ', cut and stripped
HeadingLines(lines) == {i \in 1..Len(lines) : StartsWith(lines[i], <<"#", " ">>)}
FirstHeading(lines) ==
  IF HeadingLines(lines) = {} THEN <<>>
  ELSE Strip(From(lines[Least(HeadingLines(lines))], 2))
MarkdownTitle(extracted) == FirstHeading(SplitLines(extracted))

\* str.replace of one character by another
ReplaceChar(s, old, new) == [i \in 1..Len(s) |-> IF s[i] = old THEN new ELSE s[i]]

\* str.title(): a letter after a non-letter is upper-cased, any other lower-cased
TitleCase(s) ==
  [i \in 1..Len(s) |->
     IF s[i] \in Letters
     THEN IF i = 1 \/ s[i - 1] \notin Letters THEN UpperChar(s[i]) ELSE LowerChar(s[i])
     ELSE s[i]]

\* The URL fallback: urlparse(url).path.split('/')[-1], '-' and '_' to ' ', title()
LastSegment(path) == From(path, RFind(path, "/") + 1)
UrlTitle(url) ==
  TitleCase(ReplaceChar(ReplaceChar(LastSegment(UrlParse(url).path), "-", " "), "_", " "))

\* The title extract_content settles on: the selectors' title; if that is
\* empty the Markdown heading; if that is empty the URL's
OrMarkdown(title, extracted) ==
  IF title = <<>> /\ extracted # <<>> THEN MarkdownTitle(extracted) ELSE title
OrUrl(title, url) == IF title = <<>> THEN UrlTitle(url) ELSE title
ResolveTitle(url, doc) == OrUrl(OrMarkdown(SelectorTitle(doc), doc.extracted), url)

\* ExtractsNothing without the test of trafilatura's result
ExtractsNothing_Never(doc) == FALSE

\* extract_content(url) returns None for this document
ExtractsNothing(doc) == ~doc.has_content \/ doc.extracted = <<>>

\* The dict extract_content(url) returns for a document with content
ContentData(url, doc) ==
  [title |-> ResolveTitle(url, doc),
   content |-> doc.extracted,
   content_type |-> detect_content_type(url, ResolveTitle(url, doc), doc.extracted),
   source_url |-> url]


(***************************************************************************)
(* The web the scraper runs against: URLs, documents and sites             *)
(***************************************************************************)
\* The pages of the model's sites, by their normalised URLs
U_ROOT == <<"h", "t", "t", "p", "s", ":", "/", "/", "q", ".", "c", "o", "/">>
U_A    == <<"h", "t", "t", "p", "s", ":", "/", "/", "q", ".", "c", "o", "/", "a">>
U_B    == <<"h", "t", "t", "p", "s", ":", "/", "/", "q", ".", "c", "o", "/", "b">>
U_S    == <<"h", "t", "t", "p", "s", ":", "/", "/", "s", ".", "q", ".", "c", "o", "/", "c", "-", "a">>
Pages  == {U_ROOT, U_A, U_B, U_S}

\* The href attributes the pages' anchors carry: the pages themselves, the
\* root without a path, a page under an upper-case host and with a trailing
\* slash, a host outside the domain that has the domain as a prefix, and an
\* href urlparse raises on
H_ROOT == <<"h", "t", "t", "p", "s", ":", "/", "/", "q", ".", "c", "o">>
H_A    == U_A
H_A2   == <<"h", "t", "t", "p", "s", ":", "/", "/", "Q", ".", "c", "o", "/", "a", "/">>
H_B    == U_B
H_S    == U_S
H_EXT  == <<"h", "t", "t", "p", "s", ":", "/", "/", "q", ".", "c", "o", ".", "e", "/", "x">>
H_BAD  == <<"h", "t", "t", "p", "s", ":", "/", "/", "[">>

\* The arguments scrape_site is called with: no scheme, a trailing slash,
\* and a string urlparse raises on
Roots == {<<"q", ".", "c", "o">>, <<"h", "t", "t", "p", "s", ":", "/", "/", "q", ".", "c", "o", "/", "a", "/">>, <<"[">>}

NoElems == [sel \in SelectorSet |-> [present |-> FALSE, text |-> <<>>]]
WithElem(elems, sel, text) == [elems EXCEPT ![sel] = [present |-> TRUE, text |-> text]]

\* Documents: with an <h1>; with an empty <h1> and a <title>; with an empty
\* <h1> and a Markdown heading; with a Markdown heading only; with neither;
\* and one trafilatura extracts nothing from
DocH1       == Document(WithElem(NoElems, "h1", <<" ", "Q", " ", "a", " ">>), TRUE, <<"a">>)
DocTitleTag == Document(WithElem(WithElem(NoElems, "title", <<"x">>), ".post-title", <<"b">>), TRUE, <<"a">>)
DocEmptyH1  == Document(WithElem(NoElems, "h1", <<" ">>), TRUE, <<"a", "\n", "#", " ", "b", " ", "\n", "#", " ", "c">>)
DocMarkdown == Document(NoElems, TRUE, <<"a", "\n", "#", " ", "b">>)
DocPlain    == Document(NoElems, TRUE, <<"a">>)
DocNone     == Document(WithElem(NoElems, "title", <<"x">>), FALSE, <<>>)

Page(hrefs, doc) == [hrefs |-> hrefs, doc |-> doc]

\* Sites: a cyclic site of four pages (root -> a, b; a -> root, s);
\* a site whose links come in several spellings and lead outside;
\* a site whose root carries a malformed href; a chain that ends in a cycle;
\* a root without links
SiteCyclic ==
  (U_ROOT :> Page({H_A, H_B}, DocH1)) @@ (U_A :> Page({H_ROOT, H_S}, DocMarkdown))
  @@ (U_B :> Page({}, DocNone)) @@ (U_S :> Page({}, DocPlain))
SiteAlias ==
  (U_ROOT :> Page({H_A, H_A2, H_EXT, H_B}, DocPlain)) @@ (U_A :> Page({H_B, H_ROOT}, DocEmptyH1))
  @@ (U_B :> Page({H_A2}, DocTitleTag)) @@ (U_S :> Page({}, DocPlain))
SiteBadLink ==
  (U_ROOT :> Page({H_A, H_BAD}, DocTitleTag)) @@ (U_A :> Page({H_B}, DocH1))
  @@ (U_B :> Page({}, DocPlain)) @@ (U_S :> Page({}, DocPlain))
SiteChain ==
  (U_ROOT :> Page({H_A}, DocNone)) @@ (U_A :> Page({H_B}, DocPlain))
  @@ (U_B :> Page({H_S, H_A}, DocH1)) @@ (U_S :> Page({H_ROOT}, DocMarkdown))
SiteLeaf ==
  (U_ROOT :> Page({}, DocMarkdown)) @@ (U_A :> Page({}, DocNone))
  @@ (U_B :> Page({}, DocPlain)) @@ (U_S :> Page({}, DocPlain))
Sites == {SiteCyclic, SiteAlias, SiteBadLink, SiteChain, SiteLeaf}

(***************************************************************************)
(* Bounds                                                                  *)
(***************************************************************************)
\* The largest max_pages a WebScraper is constructed with
MaxPagesMax == 5
\* The most scrape_site calls made on one WebScraper
MaxCalls == 2
\* The most characters that follow the host in a string given to normalize_url
MaxTail == 4

(***************************************************************************)
(* State                                                                   *)
(***************************************************************************)
VARIABLES
  caller,         \* "main" or "test_coverage": who constructed the WebScraper
  site,           \* the site on the network
  max_pages,      \* self.max_pages
  visited_urls,   \* self.visited_urls
  pc,             \* "idle", "crawl", "extract", "returned", "raised", "exit"
  call_no,        \* scrape_site calls begun on the instance
  normalized_url, \* scrape_site's normalized_url
  root_url,       \* crawl_site's root_url
  base_domain,    \* crawl_site's base_domain
  urls_to_visit,  \* crawl_site's urls_to_visit
  found_urls,     \* crawl_site's found_urls
  found_order,    \* history: found_urls in the order the URLs were added
  found_depth,    \* history: found_depth[i] is the link depth of found_order[i]
  urls,           \* scrape_site's urls, the list crawl_site returned
  pos,            \* the number of entries of urls the extraction loop is done with
  items,          \* scrape_site's items
  fetch_log,      \* history: the session.get calls of the current scrape_site call
  exit_status,    \* the process's exit status, -1 while it runs
  output_written, \* main has written the output document
  arg,            \* a string normalize_url is applied to, on its own
  results         \* what normalize_url returned for arg, and then for its own result

vars == <<caller, site, max_pages, visited_urls, pc, call_no, normalized_url, root_url,
          base_domain, urls_to_visit, found_urls, found_order, found_depth, urls, pos,
          items,
          fetch_log, exit_status, output_written, arg, results>>

scraper_vars == <<caller, site, max_pages>>
crawl_vars == <<root_url, base_domain, urls_to_visit, found_urls, found_order, found_depth>>
extract_vars == <<urls, pos, items>>
process_vars == <<exit_status, output_written>>
pure_vars == <<arg, results>>

\* WebScraper.__init__, called by main with max_pages from the command line
\* and by the coverage tests with a constant; the sites of the model are
\* small, so the quota is drawn from 0..MaxPagesMax for both
Init ==
  /\ caller \in {"main", "test_coverage"}
  /\ site \in Sites
  /\ max_pages \in 0..MaxPagesMax
  /\ visited_urls = {}
  /\ pc = "idle"
  /\ call_no = 0
  /\ normalized_url = <<>>
  /\ root_url = <<>>
  /\ base_domain = <<>>
  /\ urls_to_visit = <<>>
  /\ found_urls = {}
  /\ found_order = <<>>
  /\ found_depth = <<>>
  /\ urls = <<>>
  /\ pos = 0
  /\ items = <<>>
  /\ fetch_log = <<>>
  /\ exit_status = -1
  /\ output_written = FALSE
  /\ arg = <<>>
  /\ results = <<>>


(***************************************************************************)
(* WebScraper.crawl_site                                                   *)
(***************************************************************************)
\* The orders a list made of a set can have: list(set(links)) in
\* extract_links and list(found_urls) in crawl_site follow the hash order
Orders(S) ==
  {o \in [1..Cardinality(S) -> S] : \A i, j \in 1..Cardinality(S) : o[i] = o[j] => i = j}

\* Admits without the quota test
Admits_NoQuota(link, found) == link \notin found

\* Admits without the test for a link found before
Admits_NoFoundTest(link, found) == Cardinality(found) < max_pages

\* The test of the inner loop: the link is new and the quota is not reached
Admits(link, found) == link \notin found /\ Cardinality(found) < max_pages

\* AddLinks with the link put at the head of the frontier (depth-first)
RECURSIVE AddLinks_AtHead(_, _)
AddLinks_AtHead(new_links, st) ==
  IF new_links = <<>> THEN st
  ELSE AddLinks_AtHead(Tail(new_links),
                       IF Admits(Head(new_links), st.found)
                       THEN [found |-> st.found \cup {Head(new_links)},
                             frontier |-> <<Head(new_links)>> \o st.frontier,
                             order |-> Append(st.order, Head(new_links)),
                             depth |-> Append(st.depth, st.at + 1),
                             at |-> st.at]
                       ELSE st)

\* for link in new_links: if link not in found_urls and len(found_urls) <
\* self.max_pages: found_urls.add(link); urls_to_visit.append(link)
RECURSIVE AddLinks(_, _)
AddLinks(new_links, st) ==
  IF new_links = <<>> THEN st
  ELSE AddLinks(Tail(new_links),
                IF Admits(Head(new_links), st.found)
                THEN [found |-> st.found \cup {Head(new_links)},
                      frontier |-> Append(st.frontier, Head(new_links)),
                      order |-> Append(st.order, Head(new_links)),
                      depth |-> Append(st.depth, st.at + 1),
                      at |-> st.at]
                ELSE st)

\* The condition of crawl_site's while loop
LoopCond == urls_to_visit # <<>> /\ Cardinality(found_urls) < max_pages

\* One session.get, as the history keeps it
Fetch(url, phase, ok, slept) == [url |-> url, phase |-> phase, ok |-> ok, slept |-> slept]

\* scrape_site(url) up to crawl_site's loop: normalize_url twice (scrape_site
\* and crawl_site), the base domain, the frontier and found_urls seeded
ScrapeBegin(url) ==
  /\ ~NormalizeRaises(url)
  /\ ~NormalizeRaises(normalize_url(url))
  /\ ~UrlParse(normalize_url(normalize_url(url))).err
  /\ call_no' = call_no + 1
  /\ normalized_url' = normalize_url(url)
  /\ root_url' = normalize_url(normalize_url(url))
  /\ base_domain' = UrlParse(normalize_url(normalize_url(url))).netloc
  /\ urls_to_visit' = <<normalize_url(normalize_url(url))>>
  /\ found_urls' = {normalize_url(normalize_url(url))}
  /\ found_order' = <<normalize_url(normalize_url(url))>>
  /\ found_depth' = <<0>>
  /\ urls' = <<>>
  /\ pos' = 0
  /\ items' = <<>>
  /\ fetch_log' = <<>>
  /\ pc' = "crawl"
  /\ UNCHANGED <<scraper_vars, pure_vars, visited_urls, process_vars>>

\* scrape_site(url) when urlparse raises ValueError: it reaches the caller
ScrapeRaises(url) ==
  /\ \/ NormalizeRaises(url)
     \/ NormalizeRaises(normalize_url(url))
     \/ UrlParse(normalize_url(normalize_url(url))).err
  /\ call_no' = call_no + 1
  /\ normalized_url' = <<>>
  /\ root_url' = <<>>
  /\ base_domain' = <<>>
  /\ urls_to_visit' = <<>>
  /\ found_urls' = {}
  /\ found_order' = <<>>
  /\ found_depth' = <<>>
  /\ urls' = <<>>
  /\ pos' = 0
  /\ items' = <<>>
  /\ fetch_log' = <<>>
  /\ pc' = "raised"
  /\ UNCHANGED <<scraper_vars, pure_vars, visited_urls, process_vars>>

\* An iteration that pops a URL already in self.visited_urls
CrawlSkip ==
  /\ pc = "crawl"
  /\ LoopCond
  /\ Head(urls_to_visit) \in visited_urls
  /\ urls_to_visit' = Tail(urls_to_visit)
  /\ UNCHANGED <<scraper_vars, pure_vars, visited_urls, pc, call_no, normalized_url, root_url,
                 base_domain, found_urls, found_order, found_depth, extract_vars, fetch_log,
                 process_vars>>

\* AfterFailedFetch with the failed URL put back at the tail, to be retried
AfterFailedFetch_Retry(frontier) == Append(Tail(frontier), Head(frontier))

\* The frontier after an iteration whose fetch failed: the URL was popped and
\* the except branch does not put it back
AfterFailedFetch(frontier) == Tail(frontier)

\* An iteration whose session.get or raise_for_status raises: logged, no sleep
CrawlFetchFail ==
  /\ pc = "crawl"
  /\ LoopCond
  /\ Head(urls_to_visit) \notin visited_urls
  /\ urls_to_visit' = AfterFailedFetch(urls_to_visit)
  /\ fetch_log' = Append(fetch_log, Fetch(Head(urls_to_visit), "crawl", FALSE, FALSE))
  /\ UNCHANGED <<scraper_vars, pure_vars, visited_urls, pc, call_no, normalized_url, root_url,
                 base_domain, found_urls, found_order, found_depth, extract_vars,
                 process_vars>>

\* The link depth of current_url: that of its entry in found_order
CurrentDepth ==
  found_depth[Least({i \in 1..Len(found_order) : found_order[i] = Head(urls_to_visit)})]

\* The state of the inner loop becomes crawl_site's state
Added(st) ==
  /\ found_urls' = st.found
  /\ urls_to_visit' = st.frontier
  /\ found_order' = st.order
  /\ found_depth' = st.depth

\* An iteration whose fetch succeeds: the URL is visited, its new links are
\* added in the order of list(set(links)) while the quota allows, then sleep
CrawlFetchOk ==
  /\ pc = "crawl"
  /\ LoopCond
  /\ Head(urls_to_visit) \notin visited_urls
  /\ Head(urls_to_visit) \in DOMAIN site
  /\ ~ExtractLinksRaises(site[Head(urls_to_visit)].hrefs, Head(urls_to_visit))
  /\ \E new_links \in Orders(extract_links(site[Head(urls_to_visit)].hrefs,
                                             Head(urls_to_visit), base_domain)) :
       Added(AddLinks(new_links, [found |-> found_urls,
                                  frontier |-> Tail(urls_to_visit),
                                  order |-> found_order,
                                  depth |-> found_depth,
                                  at |-> CurrentDepth]))
  /\ visited_urls' = visited_urls \cup {Head(urls_to_visit)}
  /\ fetch_log' = Append(fetch_log, Fetch(Head(urls_to_visit), "crawl", TRUE, TRUE))
  /\ UNCHANGED <<scraper_vars, pure_vars, pc, call_no, normalized_url, root_url, base_domain,
                 extract_vars, process_vars>>

\* An iteration whose fetch succeeds and whose extract_links raises (urljoin
\* or normalize_url on a malformed href): the URL is visited already, the
\* except branch logs the failure, no link is added and there is no sleep
CrawlLinksRaise ==
  /\ pc = "crawl"
  /\ LoopCond
  /\ Head(urls_to_visit) \notin visited_urls
  /\ Head(urls_to_visit) \in DOMAIN site
  /\ ExtractLinksRaises(site[Head(urls_to_visit)].hrefs, Head(urls_to_visit))
  /\ urls_to_visit' = Tail(urls_to_visit)
  /\ visited_urls' = visited_urls \cup {Head(urls_to_visit)}
  /\ fetch_log' = Append(fetch_log, Fetch(Head(urls_to_visit), "crawl", TRUE, FALSE))
  /\ UNCHANGED <<scraper_vars, pure_vars, pc, call_no, normalized_url, root_url, base_domain,
                 found_urls, found_order, found_depth, extract_vars, process_vars>>

\* The loop ends: return list(found_urls), in some order
CrawlReturn ==
  /\ pc = "crawl"
  /\ ~LoopCond
  /\ \E order \in Orders(found_urls) : urls' = order
  /\ pos' = 0
  /\ items' = <<>>
  /\ pc' = "extract"
  /\ UNCHANGED <<scraper_vars, pure_vars, visited_urls, call_no, normalized_url, crawl_vars,
                 fetch_log, process_vars>>

(***************************************************************************)
(* WebScraper.scrape_site: the extraction loop                             *)
(***************************************************************************)
\* ExtractFetchFail with the loop staying on the URL whose fetch failed
ExtractFetchFail_Again ==
  /\ pc = "extract"
  /\ pos < Len(urls)
  /\ fetch_log' = Append(fetch_log, Fetch(urls[pos + 1], "extract", FALSE, TRUE))
  /\ UNCHANGED <<scraper_vars, pure_vars, visited_urls, pc, call_no, normalized_url, crawl_vars,
                 extract_vars, process_vars>>

\* extract_content(url) whose fetch raises: None, no item; then sleep
ExtractFetchFail ==
  /\ pc = "extract"
  /\ pos < Len(urls)
  /\ fetch_log' = Append(fetch_log, Fetch(urls[pos + 1], "extract", FALSE, TRUE))
  /\ pos' = pos + 1
  /\ UNCHANGED <<scraper_vars, pure_vars, visited_urls, pc, call_no, normalized_url, crawl_vars,
                 urls, items, process_vars>>

\* extract_content(url) when trafilatura extracts nothing: None, no item
ExtractNoContent ==
  /\ pc = "extract"
  /\ pos < Len(urls)
  /\ urls[pos + 1] \in DOMAIN site
  /\ ExtractsNothing(site[urls[pos + 1]].doc)
  /\ fetch_log' = Append(fetch_log, Fetch(urls[pos + 1], "extract", TRUE, TRUE))
  /\ pos' = pos + 1
  /\ UNCHANGED <<scraper_vars, pure_vars, visited_urls, pc, call_no, normalized_url, crawl_vars,
                 urls, items, process_vars>>

\* What the loop body does with extract_content's dict: items.append
AppendItem(its, content_data) == Append(its, content_data)

\* extract_content(url) returns a dict, which is appended to items
ExtractRecord ==
  /\ pc = "extract"
  /\ pos < Len(urls)
  /\ urls[pos + 1] \in DOMAIN site
  /\ ~ExtractsNothing(site[urls[pos + 1]].doc)
  /\ items' = AppendItem(items, ContentData(urls[pos + 1], site[urls[pos + 1]].doc))
  /\ fetch_log' = Append(fetch_log, Fetch(urls[pos + 1], "extract", TRUE, TRUE))
  /\ pos' = pos + 1
  /\ UNCHANGED <<scraper_vars, pure_vars, visited_urls, pc, call_no, normalized_url, crawl_vars,
                 urls, process_vars>>

\* The loop is through: build_output(normalized_url, items) is returned
ScrapeReturn ==
  /\ pc = "extract"
  /\ pos = Len(urls)
  /\ pc' = "returned"
  /\ UNCHANGED <<scraper_vars, pure_vars, visited_urls, call_no, normalized_url, crawl_vars,
                 extract_vars, fetch_log, process_vars>>

(***************************************************************************)
(* The callers: main, and the coverage tests                               *)
(***************************************************************************)
\* main: WebScraper(max_pages) and one scrape_site(url). The urlparse(url)
\* before the try block does not raise on any string of Roots.
MainCall ==
  /\ caller = "main"
  /\ pc = "idle"
  /\ call_no = 0
  /\ \E url \in Roots : ~UrlParse(url).err /\ (ScrapeBegin(url) \/ ScrapeRaises(url))

\* main: scrape_site returned; the result is written and the process ends
MainWrite ==
  /\ caller = "main"
  /\ pc = "returned"
  /\ output_written' = TRUE
  /\ exit_status' = 0
  /\ pc' = "exit"
  /\ UNCHANGED <<scraper_vars, pure_vars, visited_urls, call_no, normalized_url, crawl_vars,
                 extract_vars, fetch_log>>

\* main: the except branch, sys.exit(1)
MainExcept ==
  /\ caller = "main"
  /\ pc = "raised"
  /\ exit_status' = 1
  /\ pc' = "exit"
  /\ UNCHANGED <<scraper_vars, pure_vars, visited_urls, call_no, normalized_url, crawl_vars,
                 extract_vars, fetch_log, output_written>>

\* The coverage tests: the next scrape_site(url) on the one WebScraper
CoverageCall ==
  /\ caller = "test_coverage"
  /\ pc = "idle"
  /\ call_no < MaxCalls
  /\ \E url \in Roots : ScrapeBegin(url) \/ ScrapeRaises(url)

\* The coverage tests: the result, or the exception, of one site is reported;
\* the locals of the call are gone
CoverageResult ==
  /\ caller = "test_coverage"
  /\ pc \in {"returned", "raised"}
  /\ pc' = "idle"
  /\ normalized_url' = <<>>
  /\ root_url' = <<>>
  /\ base_domain' = <<>>
  /\ urls_to_visit' = <<>>
  /\ found_urls' = {}
  /\ found_order' = <<>>
  /\ found_depth' = <<>>
  /\ urls' = <<>>
  /\ pos' = 0
  /\ items' = <<>>
  /\ fetch_log' = <<>>
  /\ UNCHANGED <<scraper_vars, pure_vars, visited_urls, call_no, process_vars>>

\* The coverage tests: the list of sites is through
CoverageEnd ==
  /\ caller = "test_coverage"
  /\ pc = "idle"
  /\ pc' = "exit"
  /\ exit_status' = 0
  /\ UNCHANGED <<scraper_vars, pure_vars, visited_urls, call_no, normalized_url, crawl_vars,
                 extract_vars, fetch_log, output_written>>

Next ==
  \/ MainCall
  \/ MainWrite
  \/ MainExcept
  \/ CoverageCall
  \/ CoverageResult
  \/ CoverageEnd
  \/ CrawlSkip
  \/ CrawlFetchFail
  \/ CrawlFetchOk
  \/ CrawlLinksRaise
  \/ CrawlReturn
  \/ ExtractFetchFail
  \/ ExtractNoContent
  \/ ExtractRecord
  \/ ScrapeReturn

Spec == Init /\ [][Next]_vars


(***************************************************************************)
(* normalize_url on its own, applied to a URL and then to its own result   *)
(***************************************************************************)
\* The strings of at most n characters of chars
RECURSIVE Strings(_, _)
Strings(chars, n) ==
  IF n = 0 THEN {<<>>}
  ELSE Strings(chars, n - 1)
       \cup {Append(s, c) : s \in {t \in Strings(chars, n - 1) : Len(t) = n - 1}, c \in chars}

\* Well-formed URLs: with or without a scheme, a host in lower or mixed
\* case, and after it nothing or a path, params, a query or a fragment
Schemes == {<<>>, HTTP, HTTPS}
Hosts == {<<"q", ".", "c", "o">>, <<"Q", ".", "c", "o">>}
Tails == {t \in Strings({"/", "a", ";", "?", "#"}, MaxTail) : t = <<>> \/ t[1] \in {"/", "?", "#"}}
WellFormedUrls == {scheme \o host \o tail : scheme \in Schemes, host \in Hosts, tail \in Tails}

InitNormalize ==
  /\ arg \in WellFormedUrls
  /\ results = <<>>
  /\ caller = "main"
  /\ site = SiteLeaf
  /\ max_pages = 0
  /\ visited_urls = {}
  /\ pc = "idle"
  /\ call_no = 0
  /\ normalized_url = <<>>
  /\ root_url = <<>>
  /\ base_domain = <<>>
  /\ urls_to_visit = <<>>
  /\ found_urls = {}
  /\ found_order = <<>>
  /\ found_depth = <<>>
  /\ urls = <<>>
  /\ pos = 0
  /\ items = <<>>
  /\ fetch_log = <<>>
  /\ exit_status = -1
  /\ output_written = FALSE

\* normalize_url(arg), then normalize_url of what it returned
Normalize ==
  /\ Len(results) < 2
  /\ ~NormalizeRaises(IF results = <<>> THEN arg ELSE results[Len(results)])
  /\ results' = Append(results,
                       normalize_url(IF results = <<>> THEN arg ELSE results[Len(results)]))
  /\ UNCHANGED <<arg, scraper_vars, visited_urls, pc, call_no, normalized_url, crawl_vars,
                 extract_vars, fetch_log, process_vars>>

NextNormalize == Normalize

SpecNormalize == InitNormalize /\ [][NextNormalize]_vars


(***************************************************************************)
(* is_valid_url on its own                                                 *)
(***************************************************************************)
\* A WebScraper on which no scrape_site call is in progress
NoCall ==
  /\ caller = "main"
  /\ site = SiteLeaf
  /\ max_pages = 0
  /\ visited_urls = {}
  /\ pc = "idle"
  /\ call_no = 0
  /\ normalized_url = <<>>
  /\ root_url = <<>>
  /\ urls_to_visit = <<>>
  /\ found_urls = {}
  /\ found_order = <<>>
  /\ found_depth = <<>>
  /\ urls = <<>>
  /\ pos = 0
  /\ items = <<>>
  /\ fetch_log = <<>>
  /\ exit_status = -1
  /\ output_written = FALSE

\* The authority parts of the URLs is_valid_url is tried on: the base domain,
\* a subdomain, hosts that have the base domain as a prefix or as a suffix
\* without the dot, a port, a user name, none, and one urlparse raises on
Authorities ==
  {<<"q", ".", "c", "o">>,
   <<"s", ".", "q", ".", "c", "o">>,
   <<"q", ".", "c", "o", ".", "e">>,
   <<"x", "q", ".", "c", "o">>,
   <<"q", ".", "c", "o", ":", "8">>,
   <<"s", ".", "q", ".", "c", "o", ":", "8">>,
   <<"a", "@", "q", ".", "c", "o">>,
   <<"a", "@", "e", ".", "x">>,
   <<"e", ".", "x", ":", ".", "q", ".", "c", "o">>,
   <<"e", ".", "x">>,
   <<"[">>,
   <<>>}
\* What comes before the authority (nothing: the URL is a relative reference)
AuthorityMarks == {HTTPS, HTTP, <<"/", "/">>, <<>>}
\* What comes after the authority
AfterAuthority == {<<>>, <<"/", "a">>, <<"?", "a">>, <<"/", ".", "q", ".", "c", "o">>}
CandidateUrls ==
  {m \o n \o t : m \in AuthorityMarks, n \in Authorities, t \in AfterAuthority}
BaseDomains == {<<"q", ".", "c", "o">>, <<"c", "o">>}

InitValid ==
  /\ arg \in CandidateUrls
  /\ base_domain \in BaseDomains
  /\ results = <<>>
  /\ NoCall

\* is_valid_url(arg, base_domain)
IsValidUrl ==
  /\ results = <<>>
  /\ results' = <<is_valid_url(arg, base_domain)>>
  /\ UNCHANGED <<arg, scraper_vars, visited_urls, pc, call_no, normalized_url, crawl_vars,
                 extract_vars, fetch_log, process_vars>>

NextValid == IsValidUrl

SpecValid == InitValid /\ [][NextValid]_vars


(***************************************************************************)
(* detect_content_type on its own                                          *)
(***************************************************************************)
\* The URLs the classifier is tried on have at most MaxSegments path segments
MaxSegments == 2

\* Path segments: words of the patterns, some with capitals, and one of none
SegmentWords ==
  {<<"b", "l", "o", "g">>,
   <<"p", "o", "s", "t">>,
   <<"p", "o", "s", "t", "s">>,
   <<"A", "r", "t", "i", "c", "l", "e">>,
   <<"p", "o", "d", "c", "a", "s", "t">>,
   <<"c", "A", "l", "l">>,
   <<"m", "e", "e", "t", "i", "n", "g">>,
   <<"c", "o", "m", "m", "e", "n", "t", "s">>,
   <<"b", "o", "o", "k">>,
   <<"b", "o", "o", "k", "s">>,
   <<"g", "u", "i", "d", "e">>,
   <<"g", "u", "i", "d", "e", "s">>,
   <<"t", "u", "t", "o", "r", "i", "a", "l">>,
   <<"e", "p", "i", "s", "o", "d", "e">>,
   <<"x">>}
ClassifiedHosts == {<<"q", ".", "c", "o">>,
   <<"l", "i", "n", "k", "e", "d", "i", "n", ".", "c", "o", "m">>,
   <<"r", "e", "d", "d", "i", "t", ".", "c", "o", "m">>}

\* The paths of at most n segments, each with its leading '/'
RECURSIVE PathsOf(_)
PathsOf(n) ==
  IF n = 0 THEN {<<>>}
  ELSE PathsOf(n - 1) \cup {p \o <<"/">> \o w : p \in PathsOf(n - 1), w \in SegmentWords}

\* URLs as extract_content hands them on: https, a host, a path, with or
\* without a trailing slash
ClassifiedUrls ==
  {HTTPS \o h \o p \o e : h \in ClassifiedHosts, p \in PathsOf(MaxSegments), e \in {<<>>, <<"/">>}}

InitClassify ==
  /\ arg \in ClassifiedUrls
  /\ base_domain = <<>>
  /\ results = <<>>
  /\ NoCall

\* detect_content_type(arg, title, content) for some title and content
DetectContentType ==
  /\ results = <<>>
  /\ \E title \in {<<>>, P_BOOK}, content \in {<<"a">>, P_PODCAST} :
       results' = <<detect_content_type(arg, title, content)>>
  /\ UNCHANGED <<arg, scraper_vars, visited_urls, pc, call_no, normalized_url, crawl_vars,
                 extract_vars, fetch_log, process_vars>>

NextClassify == DetectContentType

SpecClassify == InitClassify /\ [][NextClassify]_vars


(***************************************************************************)
(* The title chain of extract_content on its own                           *)
(***************************************************************************)
\* Documents with content: each selector matches no element or one whose
\* text is blank, plain or padded; the Markdown has no heading line, one
\* after a plain line, a blank one before another, or a '#' line without the
\* space before a heading line
TitledDocs ==
  {Document(elems, TRUE, extracted) :
     elems \in [SelectorSet -> {[present |-> FALSE, text |-> <<>>],
                                [present |-> TRUE, text |-> <<" ">>],
                                [present |-> TRUE, text |-> <<"b">>],
                                [present |-> TRUE, text |-> <<" ", "x", " ">>]}],
     extracted \in {<<"a">>,
                    <<"a", "\n", "#", " ", "b">>,
                    <<"#", " ", "\n", "#", " ", "c">>,
                    <<"#", "a", "\n", "#", " ", "c", " ">>}}

InitTitle ==
  /\ arg \in [url : {U_ROOT, U_A, U_S}, doc : TitledDocs]
  /\ base_domain = <<>>
  /\ results = <<>>
  /\ NoCall

\* extract_content(arg.url) on a page that is fetched as arg.doc: the dict
ExtractTitle ==
  /\ results = <<>>
  /\ ~ExtractsNothing(arg.doc)
  /\ results' = <<ContentData(arg.url, arg.doc)>>
  /\ UNCHANGED <<arg, scraper_vars, visited_urls, pc, call_no, normalized_url, crawl_vars,
                 extract_vars, fetch_log, process_vars>>

NextTitle == ExtractTitle

SpecTitle == InitTitle /\ [][NextTitle]_vars


(***************************************************************************)
(* Properties                                                              *)
(***************************************************************************)
SetOf(seq) == {seq[i] : i \in 1..Len(seq)}
IndexOf(seq, x) == Least({i \in 1..Len(seq) : seq[i] = x})
LogIdx == 1..Len(fetch_log)
CrawlIdx == {k \in LogIdx : fetch_log[k].phase = "crawl"}
ExtractIdx == {k \in LogIdx : fetch_log[k].phase = "extract"}

\* The links extract_links returned for the k-th fetch of the history
LinksSeenAt(k) ==
  extract_links(site[fetch_log[k].url].hrefs, fetch_log[k].url, base_domain)

\* C1, as stated: for any max_pages = N, found_urls never holds more than N
\* URLs and the list crawl_site returns has at most N entries.
C1_CrawlBound ==
  /\ Cardinality(found_urls) <= max_pages
  /\ Len(urls) <= max_pages

\* C1, amended: for any max_pages = N >= 1, found_urls never holds more than
\* N URLs and the list crawl_site returns has at most N entries (found_urls
\* is seeded with the root, so it holds one URL also when N <= 0).
C1_CrawlBoundPositive ==
  max_pages >= 1 => Cardinality(found_urls) <= max_pages /\ Len(urls) <= max_pages

\* C1, witness: a crawl has returned with the quota reached, after fetching a
\* page with a link the quota kept out
C1_QuotaCutsLinks ==
  /\ pc = "extract"
  /\ max_pages >= 2
  /\ Cardinality(found_urls) = max_pages
  /\ \E k \in CrawlIdx :
       /\ fetch_log[k].ok
       /\ fetch_log[k].slept
       /\ ~(LinksSeenAt(k) \subseteq found_urls)

\* The internal pages a page links to: its hrefs resolved and normalised,
\* those urlparse raises on left out, those outside the base domain too
HyperLinks(p) ==
  IF p \notin DOMAIN site THEN {}
  ELSE {u \in {normalize_url(UrlJoin(p, h)) :
                 h \in {g \in site[p].hrefs :
                          ~UrlParse(g).err /\ ~NormalizeRaises(UrlJoin(p, g))}} :
          is_valid_url(u, base_domain)}

Grow(S) == S \cup UNION {HyperLinks(p) : p \in S}

RECURSIVE Closure(_)
Closure(S) == IF Grow(S) = S THEN S ELSE Closure(Grow(S))

\* The internal pages reachable from the root of the current crawl
Reachable == Closure({root_url})

\* C2: when the internal pages reachable from the root are fewer than
\* max_pages and no fetch of the crawl failed, crawl_site ends and returns
\* exactly the reachable set, cyclic links or not.
C2_ReturnsReachableSet ==
  (/\ pc \in {"extract", "returned"}
   /\ \A k \in CrawlIdx : fetch_log[k].ok
   /\ Cardinality(Reachable) < max_pages)
  => SetOf(urls) = Reachable

\* C3: within one crawl_site run no URL is the target of more than one fetch
\* attempt, successful or failed.
C3_OneCrawlFetchPerUrl ==
  \A i, j \in CrawlIdx : fetch_log[i].url = fetch_log[j].url => i = j

\* C3, witness: the crawl has ended; the fetch of a URL failed and a page
\* fetched later links to that URL
C3_FailedThenLinkedAgain ==
  /\ pc = "extract"
  /\ \E i, j \in CrawlIdx :
       /\ i < j
       /\ ~fetch_log[i].ok
       /\ fetch_log[j].ok
       /\ fetch_log[j].slept
       /\ fetch_log[i].url \in LinksSeenAt(j)

\* C4: no crawl state persists between invocations: every crawl_site call on
\* an instance starts with an empty visited set.
C4_CallStartsUnvisited ==
  (pc = "crawl" /\ urls_to_visit = <<root_url>>) => visited_urls = {}

\* C5: when no fetch of the root URL succeeds, main does not write an output
\* document and exits with a non-zero status.
C5_RootFailureSurfaced ==
  (/\ caller = "main"
   /\ pc = "exit"
   /\ root_url # <<>>
   /\ \E k \in LogIdx : fetch_log[k].url = root_url
   /\ \A k \in LogIdx : fetch_log[k].url = root_url => ~fetch_log[k].ok)
  => exit_status # 0 /\ ~output_written

\* C6, as stated: once a fetch of a URL has failed, the URL is not fetched
\* again in the same scrape_site run, crawl and extraction phase together.
C6_NoRetryInRun ==
  \A i, j \in LogIdx :
    (i < j /\ fetch_log[i].url = fetch_log[j].url) => fetch_log[i].ok

\* C6, amended: once a fetch of a URL has failed, the URL is not fetched
\* again in the same phase of the run; a URL whose crawl-phase fetch failed is
\* fetched again, once, in the extraction phase.
C6_NoRetryWithinPhase ==
  /\ \A i, j \in LogIdx :
       (i < j /\ fetch_log[i].url = fetch_log[j].url /\ ~fetch_log[i].ok)
       => (fetch_log[i].phase = "crawl" /\ fetch_log[j].phase = "extract")
  /\ pc = "returned" =>
       \A i \in CrawlIdx :
         ~fetch_log[i].ok =>
           Cardinality({j \in ExtractIdx : fetch_log[j].url = fetch_log[i].url}) = 1

\* C6, witness: a run has returned in which the crawl-phase fetch of a URL
\* failed and so did its extraction-phase fetch
C6_FailedInBothPhases ==
  /\ pc = "returned"
  /\ \E i \in CrawlIdx, j \in ExtractIdx :
       /\ fetch_log[i].url = fetch_log[j].url
       /\ ~fetch_log[i].ok
       /\ ~fetch_log[j].ok

\* C7: every record of items has a non-empty title, for every page and every
\* URL, the root path '/' included.
C7_TitlesNonEmpty == \A i \in 1..Len(items) : items[i].title # <<>>

\* The URL has a record in items
HasRecord(u) == \E i \in 1..Len(items) : items[i].source_url = u
\* The extraction-phase fetch of the URL succeeded
ExtractionFetched(u) == \E k \in ExtractIdx : fetch_log[k].url = u /\ fetch_log[k].ok
\* The content extractor has non-empty content for the page at the URL
HasContent(u) ==
  u \in DOMAIN site /\ site[u].doc.has_content /\ site[u].doc.extracted # <<>>

\* C8: when scrape_site returns, a URL has a record in items if and only if
\* it is in the discovered set, its extraction-phase fetch succeeded and the
\* extractor returned non-empty content; no URL has two records, no record
\* has empty content, and items is no longer than the discovered set.
C8_RecordsExactlyExtracted ==
  pc = "returned" =>
    /\ \A u \in Pages \cup found_urls \cup {items[i].source_url : i \in 1..Len(items)} :
         HasRecord(u) <=> (u \in found_urls /\ ExtractionFetched(u) /\ HasContent(u))
    /\ \A i, j \in 1..Len(items) : items[i].source_url = items[j].source_url => i = j
    /\ \A i \in 1..Len(items) : items[i].content # <<>>
    /\ Len(items) <= Cardinality(found_urls)

\* C8, witness: a run has returned with a record, a URL whose extraction
\* fetch failed and a URL the extractor had no content for
C8_MixedOutcomes ==
  /\ pc = "returned"
  /\ items # <<>>
  /\ \E k \in ExtractIdx : ~fetch_log[k].ok
  /\ \E k \in ExtractIdx : fetch_log[k].ok /\ ~HasContent(fetch_log[k].url)

\* C9: the records of items are in the order in which the crawler discovered
\* their URLs.
C9_ItemsInDiscoveryOrder ==
  \A i, j \in 1..Len(items) :
    i < j => IndexOf(found_order, items[i].source_url)
             < IndexOf(found_order, items[j].source_url)

\* C10: normalize_url is idempotent on well-formed URLs: applied to its own
\* result it returns that result.
C10_Idempotent == Len(results) = 2 => results[2] = results[1]

\* The length of the path of a tail: up to its first '?' or '#'
PathLen(t) == IF FindIn(t, {"?", "#"}, 0) < 0 THEN Len(t) ELSE FindIn(t, {"?", "#"}, 0)
\* The tail with a '/' put at the end of its path
AddSlash(t) == Upto(t, PathLen(t)) \o <<"/">> \o From(t, PathLen(t))
\* A missing scheme stands for https
SchemeVariants(s) == IF s = HTTP THEN {HTTP} ELSE {<<>>, HTTPS}
\* The URLs that differ from s + h + t only by a missing scheme, the case of
\* the host's letters or a trailing slash of the path
FormVariants(s, h, t) ==
  {s2 \o h2 \o t2 : s2 \in SchemeVariants(s), h2 \in Hosts, t2 \in {t, AddSlash(t)}}
\* The path has no trailing slash, or is '/'
NoSlashEnd(path) == path = <<"/">> \/ (path # <<>> /\ path[Len(path)] # "/")
\* r, the parse of the result, is the canonical form of p, the parse of the input
Canonical(p, r) ==
  /\ r.scheme \in {<<"h", "t", "t", "p">>, <<"h", "t", "t", "p", "s">>}
  /\ r.netloc = Lower(p.netloc)
  /\ NoSlashEnd(r.path)
  /\ r.params = p.params
  /\ r.query = p.query
  /\ r.fragment = p.fragment

\* C11: normalize_url maps URLs that differ only by a missing scheme, host
\* letter case or a trailing slash of the path to the same string, and that
\* string has an explicit scheme, a lowercase host, a path without trailing
\* slash ('/' for the empty path) and the params, query and fragment of the
\* input.
C11_EquivalentFormsAgree ==
  results # <<>> =>
    /\ \A s \in Schemes, h \in Hosts, t \in Tails :
         arg = s \o h \o t =>
           \A v \in FormVariants(s, h, t) : normalize_url(v) = results[1]
    /\ Canonical(UrlParse(WithScheme(arg)), UrlParse(results[1]))

\* The host of an authority: what follows the last '@', up to the first ':'
HostOf(netloc) == SplitOnce(From(netloc, RFind(netloc, "@") + 1), ":").head
\* The host is the base domain or one of its subdomains
InternalHost(host, domain) ==
  host # <<>> /\ (host = domain \/ EndsWith(host, <<".">> \o domain))

\* C12: is_valid_url(url, base_domain) returns true exactly when the URL's
\* host equals base_domain or ends with '.' + base_domain, and false for an
\* empty host or a URL urlparse raises on (it never raises itself); a host
\* that has base_domain as a prefix only is rejected.
C12_TrueExactlyForInternalHost ==
  results # <<>> =>
    /\ results[1] \in BOOLEAN
    /\ results[1] <=> (/\ ~UrlParse(arg).err
                       /\ InternalHost(HostOf(UrlParse(arg).netloc), base_domain))

\* The pattern groups in the priority order of the claim, with their labels
PriorityGroups ==
  <<[patterns |-> PatBlog,    label |-> "blog"],
    [patterns |-> PatPodcast, label |-> "podcast_transcript"],
    [patterns |-> PatCall,    label |-> "call_transcript"],
    [patterns |-> PatLinked,  label |-> "linkedin_post"],
    [patterns |-> PatReddit,  label |-> "reddit_comment"],
    [patterns |-> PatBook,    label |-> "book"],
    [patterns |-> PatGuide,   label |-> "blog"]>>
\* The groups with a pattern that occurs in the lowercased URL
MatchingGroups(url) ==
  {i \in 1..Len(PriorityGroups) : AnyIn(PriorityGroups[i].patterns, Lower(url))}
FirstGroupLabel(url) ==
  IF MatchingGroups(url) = {} THEN "blog"
  ELSE PriorityGroups[Least(MatchingGroups(url))].label
ContentTypes ==
  {"blog", "podcast_transcript", "call_transcript", "linkedin_post", "reddit_comment", "book"}

FirstPresentText(doc) == Strip(doc.elems[Selectors[Least(PresentSelectors(doc))]].text)
\* The stripped text of the first line of the Markdown that starts with '# '
FirstHeadingText(lines) == Strip(From(lines[Least(HeadingLines(lines))], 2))
\* The chain as claimed: a present element wins, then a heading line, then the URL
ChainTitle(url, doc) ==
  IF PresentSelectors(doc) # {} THEN FirstPresentText(doc)
  ELSE IF HeadingLines(SplitLines(doc.extracted)) # {}
  THEN FirstHeadingText(SplitLines(doc.extracted))
  ELSE UrlTitle(url)
\* The chain with a blank text counting as no match
NonBlankChainTitle(url, doc) ==
  IF PresentSelectors(doc) # {} /\ FirstPresentText(doc) # <<>> THEN FirstPresentText(doc)
  ELSE IF /\ HeadingLines(SplitLines(doc.extracted)) # {}
          /\ FirstHeadingText(SplitLines(doc.extracted)) # <<>>
  THEN FirstHeadingText(SplitLines(doc.extracted))
  ELSE UrlTitle(url)

\* C14, as stated: the title is the text of the first present element among
\* h1, title, .post-title, .entry-title, .article-title; else the first
\* Markdown line starting with '# '; else the humanized last URL path
\* segment. A page with an <h1> yields the h1's text, and the URL-derived
\* title is used only without headline element and Markdown heading line.
C14_FirstPresentWins ==
  results # <<>> => results[1].title = ChainTitle(arg.url, arg.doc)

\* C14, amended: the title is the stripped text of the first present element
\* of the selector list when that text is not blank; else the stripped text
\* of the first Markdown line starting with '# ' when that is not blank; else
\* the humanized last URL path segment.
C14_FirstNonBlankWins ==
  results # <<>> => results[1].title = NonBlankChainTitle(arg.url, arg.doc)

\* C14, witness: a page with a blank <h1>, a <title> with text and a Markdown
\* heading line has got the heading as its title
C14_BlankH1FallsToMarkdown ==
  /\ results # <<>>
  /\ arg.doc.elems["h1"] = [present |-> TRUE, text |-> <<" ">>]
  /\ arg.doc.elems["title"] = [present |-> TRUE, text |-> <<"b">>]
  /\ arg.doc.extracted = <<"#", "a", "\n", "#", " ", "c", " ">>
  /\ results[1].title = <<"c">>

\* C15: at every point of every scrape_site invocation, visited is a subset
\* of discovered: every URL of visited_urls is in found_urls of the crawl in
\* progress.
C15_VisitedSubsetOfDiscovered ==
  pc \in {"crawl", "extract", "returned"} => visited_urls \subseteq found_urls

\* C16: between any two consecutive fetch attempts of crawl_site a sleep of
\* self.delay occurs, whether the earlier fetch succeeded or failed.
C16_SleepBetweenCrawlFetches ==
  \A k \in CrawlIdx : (k + 1) \in CrawlIdx => fetch_log[k].slept

\* The step is a failed fetch attempt of the crawl phase
CrawlFetchFails ==
  /\ Len(fetch_log') = Len(fetch_log) + 1
  /\ fetch_log'[Len(fetch_log')].phase = "crawl"
  /\ ~fetch_log'[Len(fetch_log')].ok
\* What the step leaves of the failing URL u: off the frontier, not visited,
\* still discovered, nothing else discovered, the crawl still running
RecoveredLocally(u) ==
  /\ urls_to_visit # <<>> /\ u = Head(urls_to_visit)
  /\ urls_to_visit' = Tail(urls_to_visit)
  /\ u \notin SetOf(urls_to_visit')
  /\ visited_urls' = visited_urls
  /\ u \notin visited_urls'
  /\ found_urls' = found_urls
  /\ u \in found_urls'
  /\ pc' = "crawl"

\* C17: a crawl-phase fetch failure removes the failing URL from the
\* frontier, does not add it to visited, leaves it in discovered, adds no
\* link and leaves the crawl running on the rest of the frontier; the URL is
\* in the list crawl_site returns.
C17_FailureRecoveredLocally ==
  /\ [][CrawlFetchFails => RecoveredLocally(fetch_log'[Len(fetch_log')].url)]_vars
  /\ [](pc \in {"extract", "returned"} =>
          \A k \in CrawlIdx : ~fetch_log[k].ok => fetch_log[k].url \in SetOf(urls))

\* C17, witness: the crawl has returned a list with a URL whose fetch failed,
\* after going on to fetch another page with success
C17_CrawlWentOnAfterFailure ==
  /\ pc = "extract"
  /\ \E i, j \in CrawlIdx :
       /\ i < j
       /\ ~fetch_log[i].ok
       /\ fetch_log[j].ok
       /\ fetch_log[i].url \in SetOf(urls)
       /\ fetch_log[i].url \notin visited_urls

\* The link depth at which the crawl discovered the URL
DepthOf(u) == found_depth[IndexOf(found_order, u)]
\* The URL was discovered on the page of the k-th fetch of the history
DiscoveredAt(u, k) ==
  /\ DepthOf(u) = DepthOf(fetch_log[k].url) + 1
  /\ u \in LinksSeenAt(k)

\* C18: crawl-phase fetches happen in the order in which the URLs were
\* appended to the frontier, and a URL first discovered at link depth d is
\* fetched before any URL first discovered at depth d + 1.
C18_BreadthFirst ==
  /\ \A i, j \in CrawlIdx :
       i < j => IndexOf(found_order, fetch_log[i].url) < IndexOf(found_order, fetch_log[j].url)
  /\ \A i, j \in CrawlIdx :
       DepthOf(fetch_log[j].url) = DepthOf(fetch_log[i].url) + 1 => i < j

\* C18, witness: the crawl has fetched two URLs of depth 1 and then one of
\* depth 2, a link of the first of the two
C18_TwoLevelsFetched ==
  /\ pc = "extract"
  /\ \E i, j, k \in CrawlIdx :
       /\ i < j /\ j < k
       /\ DepthOf(fetch_log[i].url) = 1
       /\ DepthOf(fetch_log[j].url) = 1
       /\ DepthOf(fetch_log[k].url) = 2
       /\ DiscoveredAt(fetch_log[k].url, i)

\* The fetch attempts of the URL in the history, in one phase or in both
FetchesOf(u, idx) == {k \in idx : fetch_log[k].url = u}

\* C19: in the extraction phase every URL of the discovered list is fetched
\* exactly once, whether or not the crawl phase fetched it; over a whole run
\* each URL is fetched at most twice, at most once in each phase.
C19_ExtractionFetchesEachOnce ==
  /\ \A k \in ExtractIdx : fetch_log[k].url \in found_urls
  /\ \A k \in LogIdx :
       /\ Cardinality(FetchesOf(fetch_log[k].url, CrawlIdx)) <= 1
       /\ Cardinality(FetchesOf(fetch_log[k].url, ExtractIdx)) <= 1
       /\ Cardinality(FetchesOf(fetch_log[k].url, LogIdx)) <= 2
  /\ pc = "returned" =>
       \A u \in found_urls : Cardinality(FetchesOf(u, ExtractIdx)) = 1

\* C19, witness: a run has returned in which one URL was fetched in both
\* phases and another, discovered but never crawled, in the extraction
\* phase only
C19_NeverCrawledStillExtracted ==
  /\ pc = "returned"
  /\ \E u, v \in found_urls :
       /\ Cardinality(FetchesOf(u, LogIdx)) = 2
       /\ FetchesOf(v, CrawlIdx) = {}
       /\ Cardinality(FetchesOf(v, ExtractIdx)) = 1

\* An iteration of crawl_site's loop, or its return
CrawlStep == CrawlSkip \/ CrawlFetchFail \/ CrawlFetchOk \/ CrawlLinksRaise \/ CrawlReturn
\* The frontier holds no URL twice
NoDuplicates(seq) == \A i, j \in 1..Len(seq) : seq[i] = seq[j] => i = j
\* An iteration brings the loop nearer its end: found_urls has grown towards
\* the quota, or it is as it was and the frontier is shorter
Progress ==
  \/ found_urls \subseteq found_urls' /\ Cardinality(found_urls') > Cardinality(found_urls)
  \/ found_urls' = found_urls /\ Len(urls_to_visit') < Len(urls_to_visit)

\* C20: on a fresh WebScraper, at every point of crawl_site the frontier
\* holds no URL twice, every frontier URL is in found_urls and none is in
\* visited_urls; the 'already visited' branch is never taken; and crawl_site
\* terminates (every iteration brings it nearer its end, and a step is always
\* possible) with the frontier empty or |found_urls| >= max_pages.
C20_FrontierFreshAndDisjoint ==
  /\ [](call_no = 1 /\ pc = "crawl" =>
          /\ NoDuplicates(urls_to_visit)
          /\ SetOf(urls_to_visit) \subseteq found_urls
          /\ SetOf(urls_to_visit) \cap visited_urls = {}
          /\ Cardinality(found_urls) <= (IF max_pages < 1 THEN 1 ELSE max_pages)
          /\ ENABLED CrawlStep)
  /\ [][call_no = 1 => ~CrawlSkip]_vars
  /\ [][call_no = 1 /\ pc = "crawl" /\ pc' = "crawl" => Progress]_vars
  /\ [](call_no = 1 /\ pc = "extract" =>
          urls_to_visit = <<>> \/ Cardinality(found_urls) >= max_pages)

\* C20, witness: the first crawl of a WebScraper has fetched a page of depth
\* 2 and returned with the frontier empty, the quota not reached, after a
\* page linked to URLs found before
C20_FrontierRunsDry ==
  /\ call_no = 1
  /\ pc = "extract"
  /\ urls_to_visit = <<>>
  /\ Cardinality(found_urls) < max_pages
  /\ \E k \in CrawlIdx :
       /\ DepthOf(fetch_log[k].url) = 2
       /\ fetch_log[k].ok /\ fetch_log[k].slept
       /\ LinksSeenAt(k) # {}

====
